---- MODULE Spec2Model ----
(***************************************************************************)
(* The window event loop of T (src/main.go): the tick goroutine, the poll  *)
(* goroutine, the window's event queue, the context that cancels them,     *)
(* the buffer/texture pair poll paints with, and the translation of mouse  *)
(* and key events into calls on the ui.Win tree (src/ui/row.go documents   *)
(* the contract of those calls).                                           *)
(***************************************************************************)
EXTENDS Integers, Sequences, FiniteSets, TLC

(***************************************************************************)
(* Bounds of the model.                                                    *)
(***************************************************************************)
\* Events the platform and the ticker may have pending in the window's queue.
MaxQueue == 1
\* Largest width and height a size event carries.
MaxDim == 1
\* The last time of a click, in units of 100 ms.
MaxClock == 5

(***************************************************************************)
(* Constants of the libraries the program is written against.              *)
(***************************************************************************)
\* key.Modifiers is a bit set.
ModShift == 1
ModControl == 2
ModAlt == 4
ModMeta == 8
\* mouse.Button: the wheel buttons are negative.
ButtonNone == 0
ButtonLeft == 1
ButtonMiddle == 2
ButtonRight == 3
ButtonWheelUp == -1
ButtonWheelDown == -2
ButtonWheelLeft == -3
ButtonWheelRight == -4
MinInt16 == -32768
MaxInt16 == 32767

VARIABLES
  queue,       \* the window's event queue (w.Send appends, w.NextEvent takes the head)
  tickPc,      \* position of the tick goroutine: "select" | "returned"
  pollPc,      \* position of the poll goroutine: "start" | "loop" | "returned"
  cancelled,   \* w.ctx is cancelled (w.ctx.Done() is closed)
  tickerOn,    \* the ticker of tick is running
  doneClosed,  \* w.done is closed
  winRel,      \* number of w.Window.Release() calls
  size,        \* w.size
  mods,        \* poll's mods [4]bool
  dirty,       \* poll's dirty
  buf, tex,    \* what poll's buf and tex refer to: "nil" | "live" | "released"
  bufSize, texSize,  \* buf.Bounds() and tex.Bounds(): the size of the pair in use
  leaked,      \* buffers and textures never released that nothing refers to any more
  doubleRel,   \* Release has been called on a released (or nil) buffer or texture
  usedReleased,      \* a paint has used a released buffer or texture
  cancels,     \* number of cancel() calls so far, counted up to 2
  donesSent,   \* number of done{} values sent so far, counted up to 2
  paintsSince, \* paint events handled since start or the last applied resize, up to 2
  ev,          \* the step just taken: who took it, what was handled
  calls,       \* the calls on the ui.Win made by the step just taken, in order
  sent,        \* the values sent on the queue by the step just taken, in order
  winMods,     \* per modifier index 1..3: the last Win.Mod call for it was a press
  resized,     \* the argument of the last Win.Resize call
  clicks,      \* the Win's ClickState per button: time, position and count
  clock        \* the time of the Win's next click, in units of 100 ms

vars == <<queue, tickPc, pollPc, cancelled, tickerOn, doneClosed, winRel, size,
          mods, dirty, buf, tex, bufSize, texSize, leaked, doubleRel,
          usedReleased, cancels, donesSent, paintsSince, ev, calls, sent,
          winMods, resized, clicks, clock>>

\* What the event loop shares with tick, and poll's resources.
loopVars == <<queue, tickPc, pollPc, cancelled, tickerOn, doneClosed, winRel, size,
              dirty, buf, tex, bufSize, texSize, leaked, doubleRel,
              usedReleased, cancels, donesSent, paintsSince, sent>>

(***************************************************************************)
(* Events.                                                                 *)
(***************************************************************************)
Abs(n) == IF n < 0 THEN -n ELSE n

\* image.Point
Pt(x, y) == <<x, y>>
ZP == Pt(0, 0)
Mul(p, k) == Pt(p[1] * k, p[2] * k)
Sizes == (0..MaxDim) \X (0..MaxDim)

\* The kinds of event the platform sends; tick sends "time" and "done".
PlatformKinds == {"paint", "mouse", "key", "lifecycle", "size"}

Stages == {"Dead", "Visible", "Focused"}

\* Mouse positions are float32 in half pixels here: -1 is -0.5, 3 is 1.5.
HalfPixels == {-1, 3}
Buttons == {ButtonNone, ButtonLeft, ButtonMiddle, ButtonRight,
            ButtonWheelUp, ButtonWheelDown, ButtonWheelLeft, ButtonWheelRight}
MouseDirs == {"DirNone", "DirPress", "DirRelease", "DirStep"}
MouseEvents == [X : HalfPixels, Y : {3}, Button : Buttons, Direction : MouseDirs]

dirKeyCode == {"CodeUpArrow", "CodeDownArrow", "CodeLeftArrow", "CodeRightArrow",
               "CodePageUp", "CodePageDown", "CodeHome", "CodeEnd"}
Codes == dirKeyCode \cup {"CodeDeleteBackspace", "CodeDeleteForward", "CodeA"}
\* -1 is the rune of a key that has none, 13 is '\r', 97 is 'a'.
Runes == {-1, 13, 97}
KeyDirs == {"DirNone", "DirPress", "DirRelease"}
\* Modifier sets: none, each one alone, and shift with alt.
ModSets == {0, ModShift, ModControl, ModAlt, ModMeta, ModShift + ModAlt}
KeyEvents == [Code : Codes, Rune : Runes, Modifiers : ModSets, Direction : KeyDirs]

\* The input events of the runs of the whole loop: one of each way a handler
\* can go (Dir, Rune, Mod on, Mod off; Wheel, Move, Click, Click twice).
LoopKeyEvents ==
  {[Code |-> "CodeUpArrow", Rune |-> -1, Modifiers |-> 0, Direction |-> "DirPress"],
   [Code |-> "CodeA", Rune |-> 97, Modifiers |-> 0, Direction |-> "DirNone"],
   [Code |-> "CodeA", Rune |-> -1, Modifiers |-> ModShift, Direction |-> "DirPress"],
   [Code |-> "CodeA", Rune |-> -1, Modifiers |-> 0, Direction |-> "DirRelease"]}
LoopMouseEvents ==
  {[X |-> 3, Y |-> 3, Button |-> b, Direction |-> d] :
     b \in {ButtonWheelUp, ButtonLeft}, d \in {"DirNone", "DirStep"}}

\* e.Modifiers & bit != 0
HasMod(m, bit) == (m \div bit) % 2 = 1

(***************************************************************************)
(* Calls on the ui.Win.                                                    *)
(***************************************************************************)
Call(op, args) == [op |-> op, args |-> args]
By(actor, cs) == [i \in DOMAIN cs |->
                    [actor |-> actor, op |-> cs[i].op, args |-> cs[i].args]]

\* int(f) of a float32 given in half pixels: truncation toward zero.
ToInt(h) == IF h >= 0 THEN h \div 2 ELSE -((-h) \div 2)

\* mouseEvent forwarding a step as its press only.
mouseEvent_StepOnce(e) ==
  LET pt == Pt(ToInt(e.X), ToInt(e.Y)) IN
  IF e.Button = ButtonWheelUp THEN <<Call("Wheel", <<pt, 0, 1>>)>>
  ELSE IF e.Button = ButtonWheelDown THEN <<Call("Wheel", <<pt, 0, -1>>)>>
  ELSE IF e.Button = ButtonWheelLeft THEN <<Call("Wheel", <<pt, -1, 0>>)>>
  ELSE IF e.Button = ButtonWheelRight THEN <<Call("Wheel", <<pt, 1, 0>>)>>
  ELSE IF e.Direction = "DirNone" THEN <<Call("Move", <<pt>>)>>
  ELSE IF e.Direction = "DirPress" THEN <<Call("Click", <<pt, e.Button>>)>>
  ELSE IF e.Direction = "DirRelease" THEN <<Call("Click", <<pt, -e.Button>>)>>
  ELSE IF e.Direction = "DirStep" THEN <<Call("Click", <<pt, e.Button>>)>>
  ELSE <<>>

\* The calls of mouseEvent, in order.
mouseEvent(e) ==
  LET pt == Pt(ToInt(e.X), ToInt(e.Y)) IN
  IF e.Button = ButtonWheelUp THEN <<Call("Wheel", <<pt, 0, 1>>)>>
  ELSE IF e.Button = ButtonWheelDown THEN <<Call("Wheel", <<pt, 0, -1>>)>>
  ELSE IF e.Button = ButtonWheelLeft THEN <<Call("Wheel", <<pt, -1, 0>>)>>
  ELSE IF e.Button = ButtonWheelRight THEN <<Call("Wheel", <<pt, 1, 0>>)>>
  ELSE IF e.Direction = "DirNone" THEN <<Call("Move", <<pt>>)>>
  ELSE IF e.Direction = "DirPress" THEN <<Call("Click", <<pt, e.Button>>)>>
  ELSE IF e.Direction = "DirRelease" THEN <<Call("Click", <<pt, -e.Button>>)>>
  ELSE IF e.Direction = "DirStep"
       THEN <<Call("Click", <<pt, e.Button>>), Call("Click", <<pt, -e.Button>>)>>
  ELSE <<>>

\* The buttons whose clicks are counted here.
ClickButtons == {ButtonLeft, ButtonRight}

\* dirKey with home and end moving along x.
dirKey_HomeOnX(e) ==
  CASE e.Code = "CodeUpArrow" -> <<Call("Dir", <<0, -1>>)>>
    [] e.Code = "CodeDownArrow" -> <<Call("Dir", <<0, 1>>)>>
    [] e.Code = "CodeLeftArrow" -> <<Call("Dir", <<-1, 0>>)>>
    [] e.Code = "CodeRightArrow" -> <<Call("Dir", <<1, 0>>)>>
    [] e.Code = "CodePageUp" -> <<Call("Dir", <<0, -2>>)>>
    [] e.Code = "CodePageDown" -> <<Call("Dir", <<0, 2>>)>>
    [] e.Code = "CodeHome" -> <<Call("Dir", <<MinInt16, 0>>)>>
    [] e.Code = "CodeEnd" -> <<Call("Dir", <<MaxInt16, 0>>)>>
    [] OTHER -> <<Call("panic", <<"impossible">>)>>

\* The calls of dirKey: one Win.Dir, or the panic of its default case.
dirKey(e) ==
  CASE e.Code = "CodeUpArrow" -> <<Call("Dir", <<0, -1>>)>>
    [] e.Code = "CodeDownArrow" -> <<Call("Dir", <<0, 1>>)>>
    [] e.Code = "CodeLeftArrow" -> <<Call("Dir", <<-1, 0>>)>>
    [] e.Code = "CodeRightArrow" -> <<Call("Dir", <<1, 0>>)>>
    [] e.Code = "CodePageUp" -> <<Call("Dir", <<0, -2>>)>>
    [] e.Code = "CodePageDown" -> <<Call("Dir", <<0, 2>>)>>
    [] e.Code = "CodeHome" -> <<Call("Dir", <<0, MinInt16>>)>>
    [] e.Code = "CodeEnd" -> <<Call("Dir", <<0, MaxInt16>>)>>
    [] OTHER -> <<Call("panic", <<"impossible">>)>>

NoMods == [i \in 0..3 |-> FALSE]

\* The modifier vector a key event stands for.
newModsOf(e) ==
  [i \in 0..3 |->
     \/ i = 1 /\ HasMod(e.Modifiers, ModShift)
     \/ i = 2 /\ HasMod(e.Modifiers, ModAlt)
     \/ i = 3 /\ (HasMod(e.Modifiers, ModMeta) \/ HasMod(e.Modifiers, ModControl))]

\* modKey without m = -m: a flag that turns off is reported as turned on.
modKey_NoSign(m, e) ==
  LET newMods == newModsOf(e)
      diff == {i \in 0..3 : newMods[i] # m[i]}
  IN IF diff = {}
     THEN [mods |-> m, calls |-> <<>>]
     ELSE LET i == CHOOSE j \in diff : \A k \in diff : j <= k
          IN [mods |-> newMods, calls |-> <<Call("Mod", <<i>>)>>]

\* modKey without mods = newMods: the vector tracked stays as it was.
modKey_KeepsMods(m, e) ==
  LET newMods == newModsOf(e)
      diff == {i \in 0..3 : newMods[i] # m[i]}
  IN IF diff = {}
     THEN [mods |-> m, calls |-> <<>>]
     ELSE LET i == CHOOSE j \in diff : \A k \in diff : j <= k
          IN [mods |-> m,
              calls |-> <<Call("Mod", <<IF newMods[i] THEN i ELSE -i>>)>>]

\* The result of modKey: the vector it returns and the Mod call it makes.
modKey(m, e) ==
  LET newMods == newModsOf(e)
      diff == {i \in 0..3 : newMods[i] # m[i]}
  IN IF diff = {}
     THEN [mods |-> m, calls |-> <<>>]
     ELSE LET i == CHOOSE j \in diff : \A k \in diff : j <= k
          IN [mods |-> newMods,
              calls |-> <<Call("Mod", <<IF newMods[i] THEN i ELSE -i>>)>>]

\* keyEvent calling dirKey for a directional key whatever its direction.
keyEvent_AnyDirection(m, e) ==
  LET dir == IF e.Direction = "DirNone" THEN "DirPress" ELSE e.Direction
      rune == IF e.Code = "CodeDeleteBackspace" THEN 8
              ELSE IF e.Code = "CodeDeleteForward" THEN 127
              ELSE IF e.Rune = 13 THEN 10
              ELSE e.Rune
  IN IF e.Code \in dirKeyCode
     THEN [mods |-> m, calls |-> dirKey(e)]
     ELSE IF rune > 0
     THEN [mods |-> m,
           calls |-> IF dir = "DirPress" THEN <<Call("Rune", <<rune>>)>> ELSE <<>>]
     ELSE modKey(m, e)

\* keyEvent calling dirKey for every press, without looking the code up in
\* dirKeyCode.
keyEvent_NoCodeTest(m, e) ==
  LET dir == IF e.Direction = "DirNone" THEN "DirPress" ELSE e.Direction
      rune == IF e.Code = "CodeDeleteBackspace" THEN 8
              ELSE IF e.Code = "CodeDeleteForward" THEN 127
              ELSE IF e.Rune = 13 THEN 10
              ELSE e.Rune
  IN IF dir = "DirPress"
     THEN [mods |-> m, calls |-> dirKey(e)]
     ELSE IF rune > 0
     THEN [mods |-> m,
           calls |-> IF dir = "DirPress" THEN <<Call("Rune", <<rune>>)>> ELSE <<>>]
     ELSE modKey(m, e)

\* keyEvent calling Win.Rune for releases too.
keyEvent_RuneOnRelease(m, e) ==
  LET dir == IF e.Direction = "DirNone" THEN "DirPress" ELSE e.Direction
      rune == IF e.Code = "CodeDeleteBackspace" THEN 8
              ELSE IF e.Code = "CodeDeleteForward" THEN 127
              ELSE IF e.Rune = 13 THEN 10
              ELSE e.Rune
  IN IF dir = "DirPress" /\ e.Code \in dirKeyCode
     THEN [mods |-> m, calls |-> dirKey(e)]
     ELSE IF rune > 0
     THEN [mods |-> m, calls |-> <<Call("Rune", <<rune>>)>>]
     ELSE modKey(m, e)

\* The result of keyEvent: the vector it returns and the calls it makes.
keyEvent(m, e) ==
  LET dir == IF e.Direction = "DirNone" THEN "DirPress" ELSE e.Direction
      rune == IF e.Code = "CodeDeleteBackspace" THEN 8
              ELSE IF e.Code = "CodeDeleteForward" THEN 127
              ELSE IF e.Rune = 13 THEN 10
              ELSE e.Rune
  IN IF dir = "DirPress" /\ e.Code \in dirKeyCode
     THEN [mods |-> m, calls |-> dirKey(e)]
     ELSE IF rune > 0
     THEN [mods |-> m,
           calls |-> IF dir = "DirPress" THEN <<Call("Rune", <<rune>>)>> ELSE <<>>]
     ELSE modKey(m, e)

(***************************************************************************)
(* What the ui.Win has been told: the modifier state that follows from the *)
(* Mod calls and the size of the last Resize call.  The ClickState of the  *)
(* Win is followed on its own below, not inside the event loop.            *)
(***************************************************************************)
NoWinMods == [i \in 1..3 |-> FALSE]

\* Mod(m): flag |m| is set by m > 0 and cleared by m < 0.
ModsTold(w, cs) ==
  [i \in 1..3 |->
     LET ks == {k \in DOMAIN cs : cs[k].op = "Mod" /\ Abs(cs[k].args[1]) = i}
     IN IF ks = {} THEN w[i]
        ELSE cs[CHOOSE k \in ks : \A j \in ks : j <= k].args[1] > 0]

LastResize(r, cs) ==
  LET ks == {k \in DOMAIN cs : cs[k].op = "Resize"}
  IN IF ks = {} THEN r
     ELSE cs[CHOOSE k \in ks : \A j \in ks : j <= k].args[1]

\* The Win takes the calls of the step; no call of the loop is followed into
\* its ClickState.
WinHears ==
  /\ winMods' = ModsTold(winMods, calls')
  /\ resized' = LastResize(resized, calls')
  /\ UNCHANGED <<clicks, clock>>

\* No button has been pressed yet.
NoClicks == [b \in ClickButtons |-> [t |-> 0, pt |-> ZP, n |-> 0]]

(***************************************************************************)
(* newWindow: the state when it has started the two goroutines.  The first *)
(* size event gave w.size, and newWindow itself called Win.Resize with it. *)
(***************************************************************************)
Init ==
  /\ size \in Sizes
  /\ queue = <<>>
  /\ tickPc = "select"
  /\ pollPc = "start"
  /\ cancelled = FALSE
  /\ tickerOn = TRUE
  /\ doneClosed = FALSE
  /\ winRel = 0
  /\ mods = NoMods
  /\ dirty = TRUE
  /\ buf = "nil" /\ tex = "nil"
  /\ bufSize = ZP /\ texSize = ZP
  /\ leaked = 0
  /\ doubleRel = FALSE
  /\ usedReleased = FALSE
  /\ cancels = 0
  /\ donesSent = 0
  /\ paintsSince = 0
  /\ ev = [actor |-> "main", kind |-> "newWindow"]
  /\ calls = By("main", <<Call("Resize", <<size>>)>>)
  /\ sent = <<>>
  /\ winMods = NoWinMods
  /\ resized = size
  /\ clicks = NoClicks
  /\ clock = 0

\* w.cancel(): cancelling a cancelled context changes nothing.
cancel ==
  /\ cancelled' = TRUE
  /\ cancels' = IF cancels < 2 THEN cancels + 1 ELSE cancels

\* func (w *win) Release(), called from outside the two goroutines.
Release ==
  /\ cancel
  /\ ev' = [actor |-> "env", kind |-> "Release"]
  /\ calls' = <<>>
  /\ sent' = <<>>
  /\ UNCHANGED <<queue, tickPc, pollPc, tickerOn, doneClosed, winRel, size, mods,
                 dirty, buf, tex, bufSize, texSize, leaked, doubleRel,
                 usedReleased, donesSent, paintsSince>>
  /\ WinHears

\* The platform sends an event to the window; its fields are unconstrained and
\* read only by the handler, so they are drawn when poll takes the event.
EnvSend ==
  /\ pollPc # "returned"
  /\ Len(queue) < MaxQueue
  /\ \E k \in PlatformKinds :
       /\ queue' = Append(queue, k)
       /\ sent' = <<k>>
  /\ ev' = [actor |-> "env", kind |-> "send"]
  /\ calls' = <<>>
  /\ UNCHANGED <<tickPc, pollPc, cancelled, tickerOn, doneClosed, winRel, size, mods,
                 dirty, buf, tex, bufSize, texSize, leaked, doubleRel,
                 usedReleased, cancels, donesSent, paintsSince>>
  /\ WinHears

(***************************************************************************)
(* tick                                                                    *)
(***************************************************************************)
\* tick calling into the tree itself on a tick, instead of sending the time.
TickSend_CallsTick ==
  /\ tickPc = "select"
  /\ tickerOn
  /\ calls' = By("tick", <<Call("Tick", <<>>)>>)
  /\ sent' = <<>>
  /\ ev' = [actor |-> "tick", kind |-> "ticker"]
  /\ UNCHANGED <<queue, tickPc, pollPc, cancelled, tickerOn, doneClosed, winRel, size,
                 mods, dirty, buf, tex, bufSize, texSize, leaked, doubleRel,
                 usedReleased, cancels, donesSent, paintsSince>>
  /\ WinHears

\* case <-ticker.C: w.Send(time.Now())
TickSend ==
  /\ tickPc = "select"
  /\ tickerOn
  /\ Len(queue) < MaxQueue
  /\ queue' = Append(queue, "time")
  /\ sent' = <<"time">>
  /\ ev' = [actor |-> "tick", kind |-> "ticker"]
  /\ calls' = <<>>
  /\ UNCHANGED <<tickPc, pollPc, cancelled, tickerOn, doneClosed, winRel, size, mods,
                 dirty, buf, tex, bufSize, texSize, leaked, doubleRel,
                 usedReleased, cancels, donesSent, paintsSince>>
  /\ WinHears

\* The Done case returning without sending done{}.
TickDone_NoSend ==
  /\ tickPc = "select"
  /\ cancelled
  /\ tickerOn' = FALSE
  /\ tickPc' = "returned"
  /\ sent' = <<>>
  /\ ev' = [actor |-> "tick", kind |-> "ctxDone"]
  /\ calls' = <<>>
  /\ UNCHANGED <<queue, pollPc, cancelled, doneClosed, winRel, size, mods,
                 dirty, buf, tex, bufSize, texSize, leaked, doubleRel,
                 usedReleased, cancels, donesSent, paintsSince>>
  /\ WinHears

\* The Done case without its return: the loop goes round and sends done{} again.
TickDone_NoReturn ==
  /\ tickPc = "select"
  /\ cancelled
  /\ tickerOn' = FALSE
  /\ queue' = Append(queue, "done")
  /\ sent' = <<"done">>
  /\ donesSent' = IF donesSent < 2 THEN donesSent + 1 ELSE donesSent
  /\ Len(queue) < MaxQueue
  /\ ev' = [actor |-> "tick", kind |-> "ctxDone"]
  /\ calls' = <<>>
  /\ UNCHANGED <<tickPc, pollPc, cancelled, doneClosed, winRel, size, mods,
                 dirty, buf, tex, bufSize, texSize, leaked, doubleRel,
                 usedReleased, cancels, paintsSince>>
  /\ WinHears

\* case <-w.ctx.Done(): ticker.Stop(); w.Send(done{}); return
TickDone ==
  /\ tickPc = "select"
  /\ cancelled
  /\ tickerOn' = FALSE
  /\ queue' = Append(queue, "done")
  /\ sent' = <<"done">>
  /\ donesSent' = IF donesSent < 2 THEN donesSent + 1 ELSE donesSent
  /\ tickPc' = "returned"
  /\ ev' = [actor |-> "tick", kind |-> "ctxDone"]
  /\ calls' = <<>>
  /\ UNCHANGED <<pollPc, cancelled, doneClosed, winRel, size, mods,
                 dirty, buf, tex, bufSize, texSize, leaked, doubleRel,
                 usedReleased, cancels, paintsSince>>
  /\ WinHears

Tick == TickSend \/ TickDone

(***************************************************************************)
(* poll                                                                    *)
(***************************************************************************)
\* 1 for a buffer or texture that is dropped while it has not been released.
Unreleased(h) == IF h = "live" THEN 1 ELSE 0

\* buf, tex := bufTex(scr, w.size), before the loop.  bufTex panics when the
\* screen cannot provide the pair, which ends the process; the runs modelled
\* are those in which it provides them.
PollStart ==
  /\ pollPc = "start"
  /\ pollPc' = "loop"
  /\ buf' = "live" /\ tex' = "live"
  /\ bufSize' = size /\ texSize' = size
  /\ leaked' = leaked + Unreleased(buf) + Unreleased(tex)
  /\ UNCHANGED doubleRel
  /\ ev' = [actor |-> "poll", kind |-> "start"]
  /\ calls' = <<>>
  /\ sent' = <<>>
  /\ UNCHANGED <<queue, tickPc, cancelled, tickerOn, doneClosed, winRel, size, mods,
                 dirty, usedReleased, cancels, donesSent, paintsSince>>
  /\ WinHears

\* e := w.NextEvent() is of kind k.
PollTakes(k) ==
  /\ pollPc = "loop"
  /\ queue # <<>>
  /\ Head(queue) = k

\* case done
PollDone ==
  /\ PollTakes("done")
  /\ queue' = Tail(queue)
  /\ buf' = "released"
  /\ tex' = "released"
  /\ doubleRel' = (doubleRel \/ buf # "live" \/ tex # "live")
  /\ winRel' = winRel + 1
  /\ doneClosed' = TRUE
  /\ pollPc' = "returned"
  /\ ev' = [actor |-> "poll", kind |-> "done"]
  /\ calls' = <<>>
  /\ sent' = <<>>
  /\ UNCHANGED <<tickPc, cancelled, tickerOn, size, mods, dirty, bufSize, texSize,
                 leaked, usedReleased, cancels, donesSent, paintsSince>>
  /\ WinHears

\* The time case sending a paint event whatever Win.Tick returns.
PollTime_AlwaysPaint ==
  /\ PollTakes("time")
  /\ \E r \in BOOLEAN :
       /\ calls' = By("poll", <<Call("Tick", <<>>)>>)
       /\ sent' = <<"paint">>
       /\ queue' = Append(Tail(queue), "paint")
       /\ ev' = [actor |-> "poll", kind |-> "time", ret |-> r]
  /\ UNCHANGED <<tickPc, pollPc, cancelled, tickerOn, doneClosed, winRel, size, mods,
                 dirty, buf, tex, bufSize, texSize, leaked, doubleRel,
                 usedReleased, cancels, donesSent, paintsSince>>
  /\ WinHears

\* case time.Time; r is what Win.Tick returns.
PollTime ==
  /\ PollTakes("time")
  /\ \E r \in BOOLEAN :
       /\ calls' = By("poll", <<Call("Tick", <<>>)>>)
       /\ sent' = IF r THEN <<"paint">> ELSE <<>>
       /\ queue' = IF r THEN Append(Tail(queue), "paint") ELSE Tail(queue)
       /\ ev' = [actor |-> "poll", kind |-> "time", ret |-> r]
  /\ UNCHANGED <<tickPc, pollPc, cancelled, tickerOn, doneClosed, winRel, size, mods,
                 dirty, buf, tex, bufSize, texSize, leaked, doubleRel,
                 usedReleased, cancels, donesSent, paintsSince>>
  /\ WinHears

\* case lifecycle.Event
PollLifecycle ==
  /\ PollTakes("lifecycle")
  /\ queue' = Tail(queue)
  /\ \E to \in Stages :
       /\ ev' = [actor |-> "poll", kind |-> "lifecycle", to |-> to]
       /\ IF to = "Dead"
          THEN /\ cancel
               /\ calls' = <<>>
          ELSE /\ calls' = By("poll", <<Call("Focus", <<to = "Focused">>)>>)
               /\ UNCHANGED <<cancelled, cancels>>
  /\ sent' = <<>>
  /\ UNCHANGED <<tickPc, pollPc, tickerOn, doneClosed, winRel, size, mods,
                 dirty, buf, tex, bufSize, texSize, leaked, doubleRel,
                 usedReleased, donesSent, paintsSince>>
  /\ WinHears

\* b := tex.Bounds(); b.Dx() < w.size.X || b.Dy() < w.size.Y
TooSmall(b, sz) == b[1] < sz[1] \/ b[2] < sz[2]

\* The reallocation without buf.Release(): the old buffer is dropped unreleased.
Realloc_NoBufRelease(sz) ==
  LET oldTex == "released"
      oldBuf == buf
  IN /\ doubleRel' = (doubleRel \/ tex # "live")
     /\ leaked' = leaked + Unreleased(oldTex) + Unreleased(oldBuf)
     /\ buf' = "live" /\ tex' = "live"
     /\ bufSize' = Mul(sz, 2)
     /\ texSize' = Mul(sz, 2)

\* The reallocation to just the new window size.
Realloc_NotDoubled(sz) ==
  LET oldTex == "released"
      oldBuf == "released"
  IN /\ doubleRel' = (doubleRel \/ tex # "live" \/ buf # "live")
     /\ leaked' = leaked + Unreleased(oldTex) + Unreleased(oldBuf)
     /\ buf' = "live" /\ tex' = "live"
     /\ bufSize' = sz
     /\ texSize' = sz

\* tex.Release(); buf.Release(); buf, tex = bufTex(scr, w.size.Mul(2))
\* The old pair is what buf and tex referred to; the assignment drops it.
Realloc(sz) ==
  LET oldTex == "released"
      oldBuf == "released"
  IN /\ doubleRel' = (doubleRel \/ tex # "live" \/ buf # "live")
     /\ leaked' = leaked + Unreleased(oldTex) + Unreleased(oldBuf)
     /\ buf' = "live" /\ tex' = "live"
     /\ bufSize' = Mul(sz, 2)
     /\ texSize' = Mul(sz, 2)

\* The size case cancelling on (0,0) without the continue: the resize is applied too.
PollSize_NoContinue ==
  /\ PollTakes("size")
  /\ queue' = Tail(queue)
  /\ \E sz \in Sizes :
       /\ ev' = [actor |-> "poll", kind |-> "size", sz |-> sz]
       /\ IF sz = ZP THEN cancel ELSE UNCHANGED <<cancelled, cancels>>
       /\ size' = sz
       /\ calls' = By("poll", <<Call("Resize", <<sz>>)>>)
       /\ dirty' = TRUE
       /\ paintsSince' = 0
       /\ IF TooSmall(texSize, sz)
          THEN Realloc(sz)
          ELSE UNCHANGED <<buf, tex, bufSize, texSize, leaked, doubleRel>>
  /\ sent' = <<>>
  /\ UNCHANGED <<tickPc, pollPc, tickerOn, doneClosed, winRel, mods,
                 usedReleased, donesSent>>
  /\ WinHears

\* case size.Event
PollSize ==
  /\ PollTakes("size")
  /\ queue' = Tail(queue)
  /\ \E sz \in Sizes :
       /\ ev' = [actor |-> "poll", kind |-> "size", sz |-> sz]
       /\ IF sz = ZP
          THEN /\ cancel
               /\ calls' = <<>>
               /\ UNCHANGED <<size, dirty, paintsSince, buf, tex,
                              bufSize, texSize, leaked, doubleRel>>
          ELSE /\ size' = sz
               /\ calls' = By("poll", <<Call("Resize", <<sz>>)>>)
               /\ dirty' = TRUE
               /\ paintsSince' = 0
               /\ IF TooSmall(texSize, sz)
                  THEN Realloc(sz)
                  ELSE UNCHANGED <<buf, tex, bufSize, texSize, leaked, doubleRel>>
               /\ UNCHANGED <<cancelled, cancels>>
  /\ sent' = <<>>
  /\ UNCHANGED <<tickPc, pollPc, tickerOn, doneClosed, winRel, mods,
                 usedReleased, donesSent>>
  /\ WinHears

\* The bounds of buf.RGBA().SubImage(rect): rect cut to the buffer.
SubImage(b, sz) == Pt(IF sz[1] < b[1] THEN sz[1] ELSE b[1],
                      IF sz[2] < b[2] THEN sz[2] ELSE b[2])

\* The paint case without dirty = false.
PollPaint_KeepsDirty ==
  /\ PollTakes("paint")
  /\ queue' = Tail(queue)
  /\ calls' = By("poll", <<Call("Draw", <<dirty, SubImage(bufSize, size)>>)>>)
  /\ paintsSince' = IF paintsSince < 2 THEN paintsSince + 1 ELSE paintsSince
  /\ usedReleased' = (usedReleased \/ buf # "live" \/ tex # "live")
  /\ ev' = [actor |-> "poll", kind |-> "paint"]
  /\ sent' = <<>>
  /\ UNCHANGED <<tickPc, pollPc, cancelled, tickerOn, doneClosed, winRel, size, mods,
                 dirty, buf, tex, bufSize, texSize, leaked, doubleRel,
                 cancels, donesSent>>
  /\ WinHears

\* case paint.Event
PollPaint ==
  /\ PollTakes("paint")
  /\ queue' = Tail(queue)
  /\ calls' = By("poll", <<Call("Draw", <<dirty, SubImage(bufSize, size)>>)>>)
  /\ dirty' = FALSE
  /\ paintsSince' = IF paintsSince < 2 THEN paintsSince + 1 ELSE paintsSince
  /\ usedReleased' = (usedReleased \/ buf # "live" \/ tex # "live")
  /\ ev' = [actor |-> "poll", kind |-> "paint"]
  /\ sent' = <<>>
  /\ UNCHANGED <<tickPc, pollPc, cancelled, tickerOn, doneClosed, winRel, size, mods,
                 buf, tex, bufSize, texSize, leaked, doubleRel,
                 cancels, donesSent>>
  /\ WinHears

\* case mouse.Event
PollMouse ==
  /\ PollTakes("mouse")
  /\ queue' = Tail(queue)
  /\ \E e \in LoopMouseEvents : calls' = By("poll", mouseEvent(e))
  /\ ev' = [actor |-> "poll", kind |-> "mouse"]
  /\ sent' = <<>>
  /\ UNCHANGED <<tickPc, pollPc, cancelled, tickerOn, doneClosed, winRel, size, mods,
                 dirty, buf, tex, bufSize, texSize, leaked, doubleRel,
                 usedReleased, cancels, donesSent, paintsSince>>
  /\ WinHears

\* case key.Event
PollKey ==
  /\ PollTakes("key")
  /\ queue' = Tail(queue)
  /\ \E e \in LoopKeyEvents :
       /\ mods' = keyEvent(mods, e).mods
       /\ calls' = By("poll", keyEvent(mods, e).calls)
  /\ ev' = [actor |-> "poll", kind |-> "key"]
  /\ sent' = <<>>
  /\ UNCHANGED <<tickPc, pollPc, cancelled, tickerOn, doneClosed, winRel, size,
                 dirty, buf, tex, bufSize, texSize, leaked, doubleRel,
                 usedReleased, cancels, donesSent, paintsSince>>
  /\ WinHears

Poll == \/ PollStart \/ PollDone \/ PollTime \/ PollLifecycle
        \/ PollSize \/ PollPaint \/ PollMouse \/ PollKey

Next == Release \/ EnvSend \/ Tick \/ Poll

Spec == Init /\ [][Next]_vars

\* Go's select takes a ready case at random, so the Done case of tick is not
\* passed over forever; poll runs whenever its queue has an event.
LiveSpec == Spec /\ WF_vars(TickDone) /\ WF_vars(Poll)

(***************************************************************************)
(* The handlers of input events on their own: poll's mods and one mouse or *)
(* key event at a time, with the event handled kept in ev.                 *)
(***************************************************************************)
KeyStep ==
  /\ \E e \in KeyEvents :
       /\ mods' = keyEvent(mods, e).mods
       /\ calls' = By("poll", keyEvent(mods, e).calls)
       /\ ev' = [actor |-> "poll", kind |-> "key", e |-> e, old |-> mods]
  /\ UNCHANGED loopVars
  /\ WinHears

MouseStep ==
  /\ \E e \in MouseEvents :
       /\ calls' = By("poll", mouseEvent(e))
       /\ ev' = [actor |-> "poll", kind |-> "mouse", e |-> e]
  /\ UNCHANGED <<mods, loopVars>>
  /\ WinHears

NextInput == KeyStep \/ MouseStep

\* poll in its loop, before the first event; the size of the window plays no
\* part in the input handlers.
InitInput ==
  /\ size = Pt(MaxDim, MaxDim)
  /\ queue = <<>>
  /\ tickPc = "select"
  /\ pollPc = "loop"
  /\ cancelled = FALSE
  /\ tickerOn = TRUE
  /\ doneClosed = FALSE
  /\ winRel = 0
  /\ mods = NoMods
  /\ dirty = TRUE
  /\ buf = "live" /\ tex = "live"
  /\ bufSize = size /\ texSize = size
  /\ leaked = 0
  /\ doubleRel = FALSE
  /\ usedReleased = FALSE
  /\ cancels = 0
  /\ donesSent = 0
  /\ paintsSince = 0
  /\ ev = [actor |-> "poll", kind |-> "start"]
  /\ calls = <<>>
  /\ sent = <<>>
  /\ winMods = NoWinMods
  /\ resized = size
  /\ clicks = NoClicks
  /\ clock = 0

SpecInput == InitInput /\ [][NextInput]_vars

(***************************************************************************)
(* The ClickClassifier of the Win, which Win.Click consults on a press.    *)
(* Times are in units of 100 ms, distances in pixels.                      *)
(***************************************************************************)
\* The double-click threshold, 400 ms, and the pixel tolerance.
ClickThreshold == 4
ClickTolerance == 3

\* The points pressed: one point, one at the tolerance from it and one just
\* beyond the tolerance.
ClickPoints == {ZP, Pt(ClickTolerance, 0), Pt(ClickTolerance + 1, 0)}

\* Chebyshev distance; the points pressed differ in x only, where it is the
\* Euclidean distance too.
Dist(p, q) ==
  IF Abs(p[1] - q[1]) > Abs(p[2] - q[2]) THEN Abs(p[1] - q[1]) ELSE Abs(p[2] - q[2])

\* The classifier counting up to 3 and staying there.
Press_Cap(st, pt, t) ==
  [t |-> t, pt |-> pt,
   n |-> IF st.n > 0 /\ t - st.t <= ClickThreshold /\ Dist(pt, st.pt) <= ClickTolerance
         THEN (IF st.n < 3 THEN st.n + 1 ELSE 3)
         ELSE 1]

\* A press at pt at time t, the ClickState of its button being st: the new
\* ClickState.  st.n = 0 is a button not pressed before.
Press(st, pt, t) ==
  [t |-> t, pt |-> pt,
   n |-> IF st.n > 0 /\ t - st.t <= ClickThreshold /\ Dist(pt, st.pt) <= ClickTolerance
         THEN (st.n % 3) + 1
         ELSE 1]

\* Win.Click(pt, button): a press (button > 0) is counted, a release is not.
WinClick ==
  /\ \E b \in ClickButtons, pt \in ClickPoints, press \in BOOLEAN :
       /\ clicks' = IF press THEN [clicks EXCEPT ![b] = Press(clicks[b], pt, clock)]
                    ELSE clicks
       /\ calls' = By("poll", <<Call("Click", <<pt, IF press THEN b ELSE -b>>)>>)
       /\ ev' = [actor |-> "win", kind |-> "click",
                 button |-> IF press THEN b ELSE -b, pt |-> pt, was |-> clicks]
  /\ UNCHANGED <<clock, mods, winMods, resized, loopVars>>

\* Time passes between two clicks: 100 ms, or the whole threshold.
Elapse ==
  /\ \E d \in {1, ClickThreshold} :
       /\ clock + d <= MaxClock
       /\ clock' = clock + d
  /\ ev' = [actor |-> "env", kind |-> "elapse"]
  /\ calls' = <<>>
  /\ UNCHANGED <<clicks, mods, winMods, resized, loopVars>>

NextClick == WinClick \/ Elapse

SpecClick == InitInput /\ [][NextClick]_vars

(***************************************************************************)
(* Properties of the event loop.                                           *)
(***************************************************************************)
Ops(cs) == {cs[i].op : i \in DOMAIN cs}
Actors(cs) == {cs[i].actor : i \in DOMAIN cs}
Count(q, k) == Cardinality({i \in DOMAIN q : q[i] = k})

\* C2: once the goroutines run, every call on the ui.Win is made by poll, the
\* calls of one step come from one goroutine, a step of tick makes no call and
\* only sends a time value or done{}, and Win.Tick is called only by poll
\* handling a time value it took from the queue.
C2_OnlyPollCallsWin ==
  ev.actor # "main" =>
    /\ Actors(calls) \subseteq {"poll"}
    /\ Cardinality(Actors(calls)) <= 1
    /\ ev.actor = "tick" => calls = <<>> /\ sent \in {<<"time">>, <<"done">>}
    /\ ev.actor = "env" => calls = <<>>
    /\ "Tick" \in Ops(calls) =>
         ev.actor = "poll" /\ ev.kind = "time" /\ Len(calls) = 1

\* poll has just called Win.Tick while the tick goroutine is running, its
\* ticker on.
C2_Witness ==
  /\ ev.actor = "poll" /\ ev.kind = "time"
  /\ "Tick" \in Ops(calls)
  /\ tickPc = "select"
  /\ tickerOn

C4_CancelLeadsToDone ==
  cancelled ~> /\ donesSent = 1
               /\ Count(queue, "done") = 0
               /\ buf = "released" /\ tex = "released"
               /\ winRel = 1
               /\ doneClosed

\* w.done is closed after a cancellation that found events pending.
C4_Witness ==
  /\ doneClosed
  /\ cancelled
  /\ winRel = 1

\* C5: done{} is sent at most once however often cancel is called, the ticker
\* is stopped when it is sent, tick sends nothing after it, and the window is
\* released only once poll has taken it, so tick never sends on a released
\* window.
C5_DoneOnceAndLast ==
  /\ donesSent <= 1
  /\ Count(queue, "done") <= 1
  /\ donesSent = 1 <=> tickPc = "returned"
  /\ donesSent = 1 => ~tickerOn
  /\ (ev.actor = "tick" /\ ev.kind = "ticker") => donesSent = 0
  /\ ev.actor = "tick" => winRel = 0
  /\ winRel > 0 => donesSent = 1 /\ Count(queue, "done") = 0 /\ winRel = 1

\* The window is released after cancel was called more than once.
C5_Witness ==
  /\ cancels = 2
  /\ donesSent = 1
  /\ winRel = 1

\* C6: a step of poll sends a paint event exactly when it handled a time value
\* and Win.Tick returned true, and then it sends one; it sends nothing else.
C6_PaintIffTick ==
  ev.actor = "poll" =>
    /\ sent \in {<<>>, <<"paint">>}
    /\ sent = <<"paint">> <=> (ev.kind = "time" /\ ev.ret)
    /\ sent = <<"paint">> => queue # <<>> /\ queue[Len(queue)] = "paint"

\* Win.Tick returned true and the paint event is queued behind another event.
C6_Witness ==
  /\ ev.actor = "poll" /\ ev.kind = "time" /\ ev.ret
  /\ sent = <<"paint">>
  /\ Len(queue) > 1

\* C7: Win.Draw is called by the paint case only, once, and its dirty argument
\* is true exactly when the paint is the first one since the start or since
\* the last applied resize.
C7_DirtyOnFirstPaint ==
  /\ "Draw" \in Ops(calls) => ev.actor = "poll" /\ ev.kind = "paint"
  /\ (ev.actor = "poll" /\ ev.kind = "paint") =>
       /\ Len(calls) = 1
       /\ calls[1].op = "Draw"
       /\ calls[1].args[1] = (paintsSince = 1)

\* A second paint with no resize since the first draws with dirty = false.
C7_Witness ==
  /\ ev.actor = "poll" /\ ev.kind = "paint"
  /\ paintsSince = 2
  /\ calls[1].args[1] = FALSE

\* The step is poll handling a size event (ev' names it; a step that changes
\* nothing leaves ev as it is).
IsSizeStep == ev'.actor = "poll" /\ ev'.kind = "size"

\* What a size event that begins teardown does and leaves alone.
Teardown ==
  /\ cancelled'
  /\ calls' = <<>>
  /\ size' = size
  /\ dirty' = dirty
  /\ paintsSince' = paintsSince
  /\ <<buf, tex, bufSize, texSize>>' = <<buf, tex, bufSize, texSize>>

\* C8 as stated: a size event of zero area (width = 0 or height = 0) begins
\* teardown.
C8_ZeroAreaTearsDown ==
  [][(IsSizeStep /\ (ev'.sz[1] = 0 \/ ev'.sz[2] = 0)) => Teardown]_vars

\* C8: a size event of size (0,0) begins teardown: it cancels the context and
\* calls no Win.Resize, leaves w.size and dirty as they are and reallocates
\* nothing; every other size event, of zero area or not, is applied.
C8_ZeroSizeTearsDown ==
  [][IsSizeStep =>
       IF ev'.sz = ZP
       THEN Teardown
       ELSE /\ size' = ev'.sz
            /\ dirty'
            /\ calls' = By("poll", <<Call("Resize", <<ev'.sz>>)>>)
            /\ cancelled' = cancelled]_vars

\* A size event of (0,0) was handled after a paint: dirty stays false.
C8_Witness ==
  /\ ev.actor = "poll" /\ ev.kind = "size" /\ ev.sz = ZP
  /\ cancelled
  /\ ~dirty

\* C19: every paint draws the rectangle (0,0)-(w.size), whose size is that of
\* the last Win.Resize call and which lies within the buffer and the texture
\* in use; the two have one size; and poll replaces the pair only when the
\* texture is smaller than the new window size in some dimension, by a pair
\* of twice the new window size.
C19_PaintWithinBuffer ==
  /\ [](/\ bufSize = texSize
        /\ resized = size
        /\ pollPc = "loop" => ~TooSmall(texSize, size) /\ ~TooSmall(bufSize, size)
        /\ (ev.actor = "poll" /\ ev.kind = "paint") =>
             (calls[1].args[2] = size /\ calls[1].args[2] = resized))
  /\ [][(pollPc = "loop" /\ <<bufSize, texSize>>' # <<bufSize, texSize>>) =>
          /\ TooSmall(texSize, size')
          /\ bufSize' = Mul(size', 2)
          /\ texSize' = Mul(size', 2)]_vars

\* A paint from a pair that an earlier, larger window had doubled: the
\* window has since shrunk and the pair was kept.
C19_Witness ==
  /\ ev.actor = "poll" /\ ev.kind = "paint"
  /\ size # ZP
  /\ texSize # size /\ texSize # Mul(size, 2)
  /\ calls[1].args[2] = size

(***************************************************************************)
(* Properties of the input handlers.                                       *)
(***************************************************************************)
\* C1: handling one key event changes at most one of the flags 1..3 of mods.
C1_OneFlagPerEvent ==
  (ev.actor = "poll" /\ ev.kind = "key") =>
    Cardinality({i \in 1..3 : mods[i] # ev.old[i]}) <= 1

\* The y a wheel button is documented to scroll by: -y is roll up.
WheelOf(b) ==
  CASE b = ButtonWheelUp -> <<0, -1>>
    [] b = ButtonWheelDown -> <<0, 1>>
    [] b = ButtonWheelLeft -> <<-1, 0>>
    [] b = ButtonWheelRight -> <<1, 0>>

\* C9: a wheel event is forwarded as one Win.Wheel call, with y = -1 for wheel
\* up, y = 1 for wheel down, x = -1 for wheel left and x = 1 for wheel right,
\* the other coordinate being 0.
C9_WheelSigns ==
  (ev.actor = "poll" /\ ev.kind = "mouse" /\ ev.e.Button < 0) =>
    /\ Len(calls) = 1
    /\ calls[1].op = "Wheel"
    /\ <<calls[1].args[2], calls[1].args[3]>> = WheelOf(ev.e.Button)

\* C10: every Win.Mod(m) call has |m| in 1..3, with m > 0 when flag |m| turns
\* on and m < 0 when it turns off.
C10_ModArgument ==
  \A i \in DOMAIN calls :
    calls[i].op = "Mod" =>
      LET m == calls[i].args[1] IN
      /\ Abs(m) \in 1..3
      /\ m > 0 => (mods[Abs(m)] /\ ~ev.old[Abs(m)])
      /\ m < 0 => (~mods[Abs(m)] /\ ev.old[Abs(m)])

\* Control or meta has been released: Mod(-3).
C10_Witness ==
  /\ ev.actor = "poll" /\ ev.kind = "key"
  /\ calls = By("poll", <<Call("Mod", <<-3>>)>>)

\* The key event is passed on to modKey: it is no press of a directional key
\* and, after the rewriting of backspace, delete and '\r', its rune is not > 0.
ReachesModKey(e) ==
  /\ ~(e.Direction \in {"DirNone", "DirPress"} /\ e.Code \in dirKeyCode)
  /\ e.Code \notin {"CodeDeleteBackspace", "CodeDeleteForward"}
  /\ e.Rune <= 0

\* C11: a key event that reaches modKey with the modifier set poll already
\* tracks makes no Win.Mod call and leaves mods as it is; and once such an
\* event has been handled, handling it again makes no call and changes nothing.
C11_ModKeyIdempotent ==
  (ev.actor = "poll" /\ ev.kind = "key" /\ ReachesModKey(ev.e)) =>
    /\ newModsOf(ev.e) = ev.old => (calls = <<>> /\ mods = ev.old)
    /\ keyEvent(mods, ev.e) = [mods |-> mods, calls |-> <<>>]

\* Shift and alt are held and an event with just these two modifiers arrives.
C11_Witness ==
  /\ ev.actor = "poll" /\ ev.kind = "key" /\ ReachesModKey(ev.e)
  /\ ev.old[1] /\ ev.old[2]
  /\ newModsOf(ev.e) = ev.old
  /\ calls = <<>>

\* The step just taken handled a key event.
IsKey == ev.actor = "poll" /\ ev.kind = "key"
\* The key event is a press: its direction is press or none.
IsPress(e) == e.Direction \in {"DirNone", "DirPress"}

\* C12: every Win.Dir(x, y) call has exactly one of x and y non-zero, x is
\* -1 or 1 when non-zero, and y is one of -1, 1, -2, 2, MinInt16, MaxInt16
\* when non-zero.
C12_DirArguments ==
  \A i \in DOMAIN calls :
    calls[i].op = "Dir" =>
      LET x == calls[i].args[1]
          y == calls[i].args[2]
      IN /\ (x # 0) # (y # 0)
         /\ x \in {0, -1, 1}
         /\ y \in {0, -1, 1, -2, 2, MinInt16, MaxInt16}

\* The home key was pressed: Dir(0, MinInt16).
C12_Witness ==
  /\ IsKey
  /\ calls = By("poll", <<Call("Dir", <<0, MinInt16>>)>>)

\* C13: Win.Dir is called only for a key event with one of the eight
\* directional codes whose direction is press or none; the release of a
\* directional key makes no Dir call.
C13_DirOnlyOnPress ==
  /\ "Dir" \in Ops(calls) => (IsKey /\ ev.e.Code \in dirKeyCode /\ IsPress(ev.e))
  /\ (IsKey /\ ev.e.Code \in dirKeyCode /\ ~IsPress(ev.e)) => "Dir" \notin Ops(calls)
  /\ (IsKey /\ ev.e.Code \in dirKeyCode /\ IsPress(ev.e)) =>
       (Len(calls) = 1 /\ calls[1].op = "Dir")

\* A directional key of direction none moved the cursor.
C13_Witness ==
  /\ IsKey
  /\ ev.e.Code = "CodeLeftArrow" /\ ev.e.Direction = "DirNone"
  /\ "Dir" \in Ops(calls)

\* C14: the panic of dirKey's default case is never reached.
C14_NoPanic ==
  "panic" \notin Ops(calls)

\* dirKey has been entered, for the last code of its switch.
C14_Witness ==
  /\ IsKey
  /\ ev.e.Code = "CodeEnd" /\ IsPress(ev.e)
  /\ calls = By("poll", <<Call("Dir", <<0, MaxInt16>>)>>)

\* C15: a press of backspace is forwarded as Rune(8) and a press of forward
\* delete as Rune(127), whatever rune the event carries, and neither key makes
\* a Dir or Mod call; a press carrying '\r' on another non-directional key is
\* forwarded as Rune(10); Win.Rune is called with r > 0 only, and only for an
\* event whose direction is press or none.
C15_RuneForwarding ==
  IsKey =>
    /\ (ev.e.Code = "CodeDeleteBackspace" /\ IsPress(ev.e)) =>
         calls = By("poll", <<Call("Rune", <<8>>)>>)
    /\ (ev.e.Code = "CodeDeleteForward" /\ IsPress(ev.e)) =>
         calls = By("poll", <<Call("Rune", <<127>>)>>)
    /\ ev.e.Code \in {"CodeDeleteBackspace", "CodeDeleteForward"} =>
         (Ops(calls) \subseteq {"Rune"} /\ mods = ev.old)
    /\ (ev.e.Rune = 13 /\ IsPress(ev.e)
        /\ ev.e.Code \notin dirKeyCode \cup {"CodeDeleteBackspace", "CodeDeleteForward"}) =>
         calls = By("poll", <<Call("Rune", <<10>>)>>)
    /\ \A i \in DOMAIN calls :
         calls[i].op = "Rune" => (calls[i].args[1] > 0 /\ IsPress(ev.e))
    /\ ~IsPress(ev.e) => "Rune" \notin Ops(calls)

\* Backspace was pressed in an event that carries another rune, '\r'.
C15_Witness ==
  /\ IsKey
  /\ ev.e.Code = "CodeDeleteBackspace" /\ ev.e.Rune = 13 /\ IsPress(ev.e)
  /\ calls = By("poll", <<Call("Rune", <<8>>)>>)

\* C17: after every key event, for each index i in 1..3, mods[i] is true
\* exactly when the last Win.Mod call for i was a press, and false when there
\* was none: the Win's view of the modifiers is poll's.
C17_WinModsAgree ==
  \A i \in 1..3 : mods[i] = winMods[i]

\* C18: the Win.Mod calls for each index alternate, starting with a press:
\* Mod(-i) is sent only when the last Mod call for i was Mod(+i), and Mod(+i)
\* only when there was none or the last was Mod(-i).
C18_ModAlternates ==
  [][\A k \in DOMAIN calls' :
       calls'[k].op = "Mod" =>
         LET m == calls'[k].args[1]
         IN winMods[Abs(m)] = (m < 0)]_vars

\* C20: a key event makes at most one call on the Win, a Dir, a Rune or a Mod;
\* a mouse event of a wheel button makes one Wheel call whatever its
\* direction, another of direction none one Move call, a press or release one
\* Click call, and a step two: Click(pt, button) then Click(pt, -button).
C20_CallsPerEvent ==
  /\ IsKey => (Len(calls) <= 1 /\ Ops(calls) \subseteq {"Dir", "Rune", "Mod"})
  /\ (ev.actor = "poll" /\ ev.kind = "mouse") =>
       LET e == ev.e
           pt == Pt(ToInt(e.X), ToInt(e.Y))
       IN IF e.Button < 0
          THEN Len(calls) = 1 /\ calls[1].op = "Wheel" /\ calls[1].args[1] = pt
          ELSE IF e.Direction = "DirNone"
          THEN calls = By("poll", <<Call("Move", <<pt>>)>>)
          ELSE IF e.Direction = "DirStep"
          THEN calls = By("poll", <<Call("Click", <<pt, e.Button>>),
                                    Call("Click", <<pt, -e.Button>>)>>)
          ELSE /\ Len(calls) = 1
               /\ calls[1].op = "Click"
               /\ calls[1].args[1] = pt
               /\ Abs(calls[1].args[2]) = e.Button

\* A step of the right button: a press and a release at one point.
C20_Witness ==
  /\ ev.actor = "poll" /\ ev.kind = "mouse"
  /\ ev.e.Button = ButtonRight /\ ev.e.Direction = "DirStep"
  /\ Len(calls) = 2
  /\ calls[1].args[2] = ButtonRight /\ calls[2].args[2] = -ButtonRight

(***************************************************************************)
(* Properties of the click classifier.                                     *)
(***************************************************************************)
\* The counts of presses of one button at one point at the times ts.
RECURSIVE CountsFrom(_, _, _)
CountsFrom(st, pt, ts) ==
  IF ts = <<>> THEN <<>>
  ELSE LET next == Press(st, pt, Head(ts))
       IN <<next.n>> \o CountsFrom(next, pt, Tail(ts))

\* C16: the count of a press is the previous count of its button advanced
\* 1 -> 2 -> 3 -> 1 when the press is within the time threshold and the
\* distance tolerance of the previous press of that button, and 1 otherwise;
\* it is always 1, 2 or 3; a press leaves the state of the other buttons, and
\* a release the state of every button, as it was; presses at 0, 100, 200 and
\* 300 ms at one point count 1, 2, 3, 1.
C16_ClickCounting ==
  /\ \A b \in ClickButtons : clicks[b].n \in 0..3
  /\ (ev.actor = "win" /\ ev.kind = "click" /\ ev.button > 0) =>
       LET b == ev.button
           old == ev.was[b]
           near == /\ old.n > 0
                   /\ clock - old.t <= ClickThreshold
                   /\ Dist(ev.pt, old.pt) <= ClickTolerance
       IN /\ clicks[b].n \in 1..3
          /\ clicks[b].n = IF ~near THEN 1
                           ELSE IF old.n = 3 THEN 1 ELSE old.n + 1
          /\ \A c \in ClickButtons \ {b} : clicks[c] = ev.was[c]
  /\ (ev.actor = "win" /\ ev.kind = "click" /\ ev.button < 0) => clicks = ev.was
  /\ CountsFrom(NoClicks[ButtonLeft], ZP, <<0, 1, 2, 3>>) = <<1, 2, 3, 1>>

\* The fourth press of the left button in 300 ms, at the tolerance from the
\* third, counts 1 again, while the right button is at count 2.
C16_Witness ==
  /\ ev.actor = "win" /\ ev.kind = "click" /\ ev.button = ButtonLeft
  /\ clock = 3
  /\ ev.was[ButtonLeft].n = 3
  /\ Dist(ev.pt, ev.was[ButtonLeft].pt) = ClickTolerance
  /\ clicks[ButtonLeft].n = 1
  /\ clicks[ButtonRight].n = 2

====
